---- MODULE Spec2Model ----
(***************************************************************************)
(* Model of missing.py: reconciliation of a Plex library against reference *)
(* title lists (normalize_title, index_by_ids, build_title_year_index,     *)
(* match_present and the orchestration in main).                           *)
(*                                                                         *)
(* A title is a sequence of characters, each character a string; the       *)
(* characters U+2019 (right single quotation mark) and U+0060 (backtick)   *)
(* are written "U+2019" and "U+0060".                                      *)
(* Python's None is the value None below.                                  *)
(***************************************************************************)
EXTENDS Integers, Sequences, FiniteSets, TLC

None == "None"

(***************************************************************************)
(* Characters and normalize_title                                          *)
(***************************************************************************)

\* str.lower() on the characters the model uses
LowerChar(c) ==
    CASE c = "A" -> "a"
      [] c = "I" -> "i"
      [] c = "U" -> "u"
      [] OTHER -> c

\* the characters str.strip() removes and the regex class \s matches
IsSpace(c) == c \in {" ", "\t", "\n"}

\* the regex class of line 233: U+2019, the straight apostrophe and the backtick
IsApostrophe(c) == c \in {"U+2019", "'", "U+0060"}

\* the regex class [:!?.,&/()\-]
IsPunct(c) == c \in {":", "!", "?", ".", ",", "&", "/", "(", ")", "-"}

\* t.lower()
RECURSIVE Lower(_)
Lower(t) == IF t = <<>> THEN <<>> ELSE <<LowerChar(Head(t))>> \o Lower(Tail(t))

RECURSIVE LStrip(_)
LStrip(t) == IF t # <<>> /\ IsSpace(Head(t)) THEN LStrip(Tail(t)) ELSE t

RECURSIVE RStrip(_)
RStrip(t) ==
    IF t # <<>> /\ IsSpace(t[Len(t)]) THEN RStrip(SubSeq(t, 1, Len(t) - 1)) ELSE t

\* t.strip()
Strip(t) == RStrip(LStrip(t))

\* re.sub of line 233: every apostrophe glyph becomes the straight apostrophe
RECURSIVE SubApostrophe(_)
SubApostrophe(t) ==
    IF t = <<>> THEN <<>>
    ELSE <<IF IsApostrophe(Head(t)) THEN "'" ELSE Head(t)>> \o SubApostrophe(Tail(t))

\* re.sub(r"[:!?.,&/()\-]+", " ", t): every maximal run of characters of the
\* class becomes one space
RECURSIVE SubPunct(_)
SubPunct(t) ==
    IF t = <<>> THEN <<>>
    ELSE IF IsPunct(Head(t))
         THEN IF Len(t) > 1 /\ IsPunct(t[2])
              THEN SubPunct(Tail(t))
              ELSE <<" ">> \o SubPunct(Tail(t))
         ELSE <<Head(t)>> \o SubPunct(Tail(t))

\* re.sub(r"\s+", " ", t): every maximal run of whitespace becomes one space
RECURSIVE SubSpace(_)
SubSpace(t) ==
    IF t = <<>> THEN <<>>
    ELSE IF IsSpace(Head(t))
         THEN IF Len(t) > 1 /\ IsSpace(t[2])
              THEN SubSpace(Tail(t))
              ELSE <<" ">> \o SubSpace(Tail(t))
         ELSE <<Head(t)>> \o SubSpace(Tail(t))

normalize_title(t) ==
    LET t1 == Strip(Lower(t))
        t2 == SubApostrophe(t1)
        t3 == SubPunct(t2)
        t4 == SubSpace(t3)
    IN  t4

(***************************************************************************)
(* Records (Python dicts) and truthiness                                   *)
(***************************************************************************)

\* d.get(key): None when the dict has no such key
Get(d, key) == IF key \in DOMAIN d THEN d[key] ELSE None

\* bool(v) for a string or None: None and "" are false
Truthy(v) == v # None /\ v # ""

\* the value of `found` when no library record was found (Python None)
NoRecord == [none |-> TRUE]

\* the value of `match` when extractOne returns None
NoMatch == <<>>

\* {} : the empty dict
EmptyDict == [k \in {} |-> NoRecord]

\* a faulty variant of the namespace order: tmdb before imdb
IdKeysSwapped == <<"tmdb_id", "imdb_id", "tvdb_id">>

\* the namespaces, in the order of the for loops of lines 241 and 271
IdKeys == <<"imdb_id", "tmdb_id", "tvdb_id">>

\* f"{key}:{val}": the namespace, a colon, the id. The three namespace names
\* have the same length, so two keys are equal iff namespace and id are.
IdKey(key, val) == <<key, ":", val>>

(***************************************************************************)
(* index_by_ids and build_title_year_index                                 *)
(***************************************************************************)

\* a faulty variant of the dict assignment: an existing key keeps its value
DictSetKeepFirst(d, entries) == d @@ entries

\* idx[k] = it (line 244), d[(t, y)] = it (line 252): the entries are written
\* into the dict d, a key already there gets the new value
DictSet(d, entries) == entries @@ d

\* the entries one library record writes into idx (lines 241-244)
IdEntries(it) ==
    [k \in {IdKey(IdKeys[n], Get(it, IdKeys[n])) :
                n \in {m \in 1..Len(IdKeys) : Truthy(Get(it, IdKeys[m]))}} |-> it]

\* index_by_ids: a later record overwrites an earlier one on the same key
RECURSIVE index_by_ids(_)
index_by_ids(items) ==
    IF items = <<>> THEN EmptyDict
    ELSE DictSet(index_by_ids(SubSeq(items, 1, Len(items) - 1)), IdEntries(items[Len(items)]))

\* it.get("year") or ""
YearOrEmpty(it) == IF Truthy(Get(it, "year")) THEN Get(it, "year") ELSE ""

\* a faulty variant of the key of the title+year index: the year left out
TitleYearKeyNoYear(it) == <<normalize_title(it["title"]), "">>

\* (normalize_title(it["title"]), it.get("year") or "")
TitleYearKey(it) == <<normalize_title(it["title"]), YearOrEmpty(it)>>

\* build_title_year_index: a later record overwrites an earlier one
RECURSIVE build_title_year_index(_)
build_title_year_index(items) ==
    IF items = <<>> THEN EmptyDict
    ELSE LET it == items[Len(items)]
         IN  DictSet(build_title_year_index(SubSeq(items, 1, Len(items) - 1)),
                     TitleYearKey(it) :> it)

\* [normalize_title(p["title"]) for p in plex_items]
PlexTitles(plex_items) == [n \in 1..Len(plex_items) |-> normalize_title(plex_items[n]["title"])]

(***************************************************************************)
(* The scorer. fuzz.WRatio and process.extractOne belong to the rapidfuzz  *)
(* library: WRatio returns 0 when either string is empty and 100 on two    *)
(* equal non-empty strings; its value on any other pair is an input, kept  *)
(* in the table tbl (query, choice) -> score.                              *)
(***************************************************************************)

WRatio(q, c, tbl) ==
    IF q = <<>> \/ c = <<>> THEN 0
    ELSE IF q = c THEN 100
    ELSE tbl[<<q, c>>]

\* the pairs whose score the table must give for the call extractOne(q, titles)
ScorePairs(q, titles) ==
    {<<q, titles[n]>> : n \in {m \in 1..Len(titles) : q # <<>> /\ titles[m] # <<>> /\ titles[m] # q}}

\* process.extractOne(q, titles, scorer=fuzz.WRatio): None on no choices, else
\* (choice, score, index) of the first choice with the highest score; the
\* default score_cutoff keeps a best score of 0.
extractOne(q, titles, tbl) ==
    IF titles = <<>> THEN NoMatch
    ELSE LET best == CHOOSE n \in 1..Len(titles) :
                        /\ \A m \in 1..Len(titles) :
                              WRatio(q, titles[m], tbl) <= WRatio(q, titles[n], tbl)
                        /\ \A m \in 1..(n - 1) :
                              WRatio(q, titles[m], tbl) < WRatio(q, titles[n], tbl)
         IN  <<titles[best], WRatio(q, titles[best], tbl), best - 1>>

(***************************************************************************)
(* match_present: one iteration of the loop of lines 266-296               *)
(***************************************************************************)

\* lines 270-275: the first namespace of keys, from position n on, whose id
\* the record carries and the index holds
RECURSIVE IdLookup(_, _, _, _)
IdLookup(s, id_index, keys, n) ==
    IF n > Len(keys) THEN NoRecord
    ELSE LET sid == Get(s, keys[n])
         IN  IF Truthy(sid) /\ IdKey(keys[n], sid) \in DOMAIN id_index
             THEN id_index[IdKey(keys[n], sid)]
             ELSE IdLookup(s, id_index, keys, n + 1)

IdStage(s, id_index, prefer_ids) ==
    IF prefer_ids THEN IdLookup(s, id_index, IdKeys, 1) ELSE NoRecord

\* lines 279-280: ty_index.get(ny)
ExactStage(s, ty_index) ==
    IF TitleYearKey(s) \in DOMAIN ty_index THEN ty_index[TitleYearKey(s)] ELSE NoRecord

\* a faulty variant of line 286: a strict comparison
AcceptsStrict(match, fuzzy_threshold) == match # NoMatch /\ match[2] > fuzzy_threshold

\* line 286: match and match[1] >= fuzzy_threshold
Accepts(match, fuzzy_threshold) == match # NoMatch /\ match[2] >= fuzzy_threshold

\* a faulty variant of line 289: the year is not looked at
YearOkAny(s, p) == TRUE

\* line 289: (s.get("year") and p.get("year") == s.get("year")) or not s.get("year")
YearOk(s, p) ==
    \/ Truthy(Get(s, "year")) /\ Get(p, "year") = Get(s, "year")
    \/ ~Truthy(Get(s, "year"))

\* lines 288-291: the first library record, from position n on, with the
\* candidate's normalized title and an acceptable year
RECURSIVE FirstWithTitle(_, _, _, _)
FirstWithTitle(s, plex_items, title, n) ==
    IF n > Len(plex_items) THEN NoRecord
    ELSE IF normalize_title(plex_items[n]["title"]) = title /\ YearOk(s, plex_items[n])
         THEN plex_items[n]
         ELSE FirstWithTitle(s, plex_items, title, n + 1)

\* lines 284-291
FuzzyStage(s, plex_items, match, fuzzy_threshold) ==
    IF Accepts(match, fuzzy_threshold)
    THEN FirstWithTitle(s, plex_items, match[1], 1)
    ELSE NoRecord

\* the loop body up to line 291: found, the stage that set it (0: none) and
\* the local match (NoMatch when the fuzzy stage was not entered)
MatchOne(s, plex_items, fuzzy_threshold, prefer_ids, tbl) ==
    LET id_index == IF prefer_ids THEN index_by_ids(plex_items) ELSE EmptyDict
        ty_index == build_title_year_index(plex_items)
        plex_titles == PlexTitles(plex_items)
        f1 == IdStage(s, id_index, prefer_ids)
        f2 == ExactStage(s, ty_index)
        m  == extractOne(normalize_title(s["title"]), plex_titles, tbl)
        f3 == FuzzyStage(s, plex_items, m, fuzzy_threshold)
    IN  IF f1 # NoRecord THEN [found |-> f1, stage |-> 1, match |-> NoMatch]
        ELSE IF f2 # NoRecord THEN [found |-> f2, stage |-> 2, match |-> NoMatch]
        ELSE IF f3 # NoRecord THEN [found |-> f3, stage |-> 3, match |-> m]
        ELSE [found |-> NoRecord, stage |-> 0, match |-> m]

\* does the record reach the fuzzy stage (line 283)
ReachesFuzzy(s, plex_items, prefer_ids) ==
    /\ IdStage(s, IF prefer_ids THEN index_by_ids(plex_items) ELSE EmptyDict, prefer_ids) = NoRecord
    /\ ExactStage(s, build_title_year_index(plex_items)) = NoRecord

\* line 294: {**s, "_matched_ratingKey": found.get("ratingKey")}
PresentEntry(s, found) == ("_matched_ratingKey" :> Get(found, "ratingKey")) @@ s

(***************************************************************************)
(* Bounds and the inputs the model draws from                              *)
(***************************************************************************)

\* longest library list handed to match_present
MaxLib == 2

\* longest source list handed to match_present
MaxSrc == 2

\* the default of matching.fuzzy_threshold
DefaultThreshold == 90

Thresholds == {0, DefaultThreshold, 100}

\* the scores the scorer may answer in a run with the given threshold: the ends
\* of its range, the threshold and the value just below it
ScoreValues(threshold) == {0, threshold - 1, threshold, 100} \cap 0..100

\* the sequences over S of length at most n
SeqsUpTo(S, n) == UNION {[1..k -> S] : k \in 0..n}

\* those without a repeated element
DistinctSeqsUpTo(S, n) ==
    {q \in SeqsUpTo(S, n) : \A a, b \in 1..Len(q) : a # b => q[a] # q[b]}

\* str(getattr(m, "year", "") or ""): 0 stands for a Plex item without a year
StrYear(y) ==
    CASE y = 0 -> ""
      [] y = 1990 -> "1990"
      [] y = 2009 -> "2009"
      [] y = 2017 -> "2017"

\* Plex items as the server lists them: title, year, the ids of their guids
\* and the ratingKey, which the server keeps unique
PlexCatalogue ==
    { [title |-> <<"I", "t">>, year |-> 1990, imdb_id |-> "1",  tmdb_id |-> None, tvdb_id |-> None, ratingKey |-> 11],
      [title |-> <<"I", "t">>, year |-> 2017, imdb_id |-> None, tmdb_id |-> "1",  tvdb_id |-> None, ratingKey |-> 12],
      [title |-> <<"I", "t">>, year |-> 0,    imdb_id |-> None, tmdb_id |-> None, tvdb_id |-> None, ratingKey |-> 13],
      [title |-> <<"U", "p">>, year |-> 2009, imdb_id |-> "1",  tmdb_id |-> None, tvdb_id |-> "1",  ratingKey |-> 14] }

\* a second copy of the 2017 item, as a server with the same film in two
\* sections or editions lists it: the same tmdb id and year, the title in
\* another case, another ratingKey
PlexTwin ==
    [title |-> <<"i", "t">>, year |-> 2017, imdb_id |-> None, tmdb_id |-> "1", tvdb_id |-> None, ratingKey |-> 15]

\* the dict gather_plex appends for a Plex item of a section of the given kind
\* (lines 201-209 and 215-223)
GatherRecord(m, kind) ==
    [title |-> m.title, year |-> StrYear(m.year),
     imdb_id |-> m.imdb_id, tmdb_id |-> m.tmdb_id, tvdb_id |-> m.tvdb_id,
     ratingKey |-> m.ratingKey, kind |-> kind]

\* a record of scrape_imdb_top250 (line 91): no tmdb_id and no tvdb_id key
ImdbRecord(title, year, imdb, kind) ==
    [title |-> title, year |-> year, imdb_id |-> imdb, kind |-> kind]

\* a record of fetch_trakt_list (lines 152-159)
TraktRecord(title, year, imdb, tmdb, tvdb, kind) ==
    [title |-> title, year |-> year, imdb_id |-> imdb, tmdb_id |-> tmdb,
     tvdb_id |-> tvdb, kind |-> kind]

\* reference records of one kind
RefCatalogue(kind) ==
    { ImdbRecord(<<"I", "t">>, "2017", None, kind),
      ImdbRecord(<<"I", "t">>, "", None, kind),
      ImdbRecord(<<>>, None, None, kind),
      TraktRecord(<<"I", "t", "!">>, None, "1", "1", None, kind),
      TraktRecord(<<"I", "t", "!">>, "2017", None, None, "1", kind),
      TraktRecord(<<"U", "p">>, "2009", None, "1", None, kind) }

(***************************************************************************)
(* State                                                                   *)
(***************************************************************************)

VARIABLES
    \* normalize_title applied to two titles
    npc, titleX, titleY, normX, normY, normXX,
    \* match_present: arguments, locals and position
    mpc, source, plex_items, fuzzy_threshold, prefer_ids,
    i, s, found, stage, match, present, missing,
    \* the scores the scorer has answered so far
    wratio,
    \* main: position, locals, and the requests sent to Plex, Radarr and Sonarr
    pc, movies, shows, src_bundles, done_bundles,
    present_movies, missing_movies, present_shows, missing_shows,
    radarr_missing_movies, sonarr_missing_shows,
    gathers, radarr_lookups, radarr_posts, sonarr_lookups, sonarr_posts

nvars == <<npc, titleX, titleY, normX, normY, normXX>>

mvars == <<mpc, source, plex_items, i, s, found, stage, match, present, missing>>

cvars == <<fuzzy_threshold, prefer_ids>>

pvars == <<pc, movies, shows, src_bundles, done_bundles,
           present_movies, missing_movies, present_shows, missing_shows,
           radarr_missing_movies, sonarr_missing_shows,
           gathers, radarr_lookups, radarr_posts, sonarr_lookups, sonarr_posts>>

vars == <<nvars, mvars, cvars, wratio, pvars>>

\* the variables of normalize_title's check while it is not running
NormIdle ==
    /\ npc = "idle"
    /\ titleX = <<>> /\ titleY = <<>>
    /\ normX = <<>> /\ normY = <<>> /\ normXX = <<>>

\* the variables of match_present while it is not stepped through
MatchIdle ==
    /\ mpc = "idle"
    /\ source = <<>> /\ plex_items = <<>>
    /\ i = 0 /\ s = NoRecord /\ found = NoRecord /\ stage = 0 /\ match = NoMatch
    /\ present = <<>> /\ missing = <<>>

\* the variables of main before main runs
MainIdle ==
    /\ pc = "idle"
    /\ movies = <<>> /\ shows = <<>>
    /\ src_bundles = <<>> /\ done_bundles = 0
    /\ present_movies = <<>> /\ missing_movies = <<>>
    /\ present_shows = <<>> /\ missing_shows = <<>>
    /\ radarr_missing_movies = <<>> /\ sonarr_missing_shows = <<>>
    /\ gathers = 0 /\ radarr_lookups = <<>> /\ sonarr_lookups = <<>>
    /\ radarr_posts = <<>> /\ sonarr_posts = <<>>

(***************************************************************************)
(* normalize_title on bounded titles                                       *)
(***************************************************************************)

\* longest title normalize_title is applied to
MaxTitleLen == 3

\* a letter in both cases, two whitespace characters, two characters of the
\* punctuation class and the three apostrophe glyphs
TitleAlphabet == {"a", "A", " ", "\t", "!", "-", "'", "U+0060", "U+2019"}

NormInit ==
    /\ npc = "input"
    /\ titleX \in SeqsUpTo(TitleAlphabet, MaxTitleLen)
    /\ titleY \in SeqsUpTo(TitleAlphabet, MaxTitleLen)
    /\ normX = <<>> /\ normY = <<>> /\ normXX = <<>>
    /\ MatchIdle /\ MainIdle
    /\ fuzzy_threshold = DefaultThreshold /\ prefer_ids = TRUE /\ wratio = <<>>

\* normalize_title(x), normalize_title(y) and normalize_title(normalize_title(x))
NormApply ==
    /\ npc = "input"
    /\ npc' = "done"
    /\ normX' = normalize_title(titleX)
    /\ normY' = normalize_title(titleY)
    /\ normXX' = normalize_title(normalize_title(titleX))
    /\ UNCHANGED <<titleX, titleY, mvars, cvars, wratio, pvars>>

NormNext == NormApply

SpecNorm == NormInit /\ [][NormNext]_vars

(***************************************************************************)
(* match_present, statement by statement                                   *)
(***************************************************************************)

\* the call: the arguments are drawn, lines 257-264 have run
MatchInit ==
    /\ mpc = "loop"
    /\ source \in DistinctSeqsUpTo(RefCatalogue("movie"), MaxSrc)
    /\ plex_items \in DistinctSeqsUpTo({GatherRecord(m, "movie") : m \in PlexCatalogue}, MaxLib)
    /\ fuzzy_threshold \in Thresholds
    /\ prefer_ids \in BOOLEAN
    /\ i = 0
    /\ s = NoRecord
    /\ found = NoRecord
    /\ stage = 0
    /\ match = NoMatch
    /\ present = <<>>
    /\ missing = <<>>
    /\ wratio = <<>>
    /\ NormIdle /\ MainIdle

\* the scores still to be asked of the scorer for the record r
NewPairs(r, items, prefer, tbl) ==
    IF ReachesFuzzy(r, items, prefer)
    THEN ScorePairs(normalize_title(r["title"]), PlexTitles(items)) \ DOMAIN tbl
    ELSE {}

\* a faulty variant of lines 295-296: a missing record is dropped
AppendMissingDropped(list, r, f) == list

\* lines 293-294
AppendPresent(list, r, f) ==
    IF f # NoRecord THEN Append(list, PresentEntry(r, f)) ELSE list

\* lines 295-296
AppendMissing(list, r, f) ==
    IF f # NoRecord THEN list ELSE Append(list, r)

\* one iteration of the loop of line 266
MatchIter ==
    /\ mpc = "loop"
    /\ i < Len(source)
    /\ \E ext \in [NewPairs(source[i + 1], plex_items, prefer_ids, wratio) -> ScoreValues(fuzzy_threshold)] :
         LET tbl == ext @@ wratio
             r   == MatchOne(source[i + 1], plex_items, fuzzy_threshold, prefer_ids, tbl)
         IN  /\ wratio' = tbl
             /\ s' = source[i + 1]
             /\ found' = r.found
             /\ stage' = r.stage
             /\ match' = r.match
             /\ present' = AppendPresent(present, source[i + 1], r.found)
             /\ missing' = AppendMissing(missing, source[i + 1], r.found)
    /\ i' = i + 1
    /\ UNCHANGED <<mpc, source, plex_items, cvars, nvars, pvars>>

\* line 298
MatchReturn ==
    /\ mpc = "loop"
    /\ i = Len(source)
    /\ mpc' = "returned"
    /\ UNCHANGED <<source, plex_items, i, s, found, stage, match, present, missing,
                   cvars, wratio, nvars, pvars>>

MatchNext == MatchIter \/ MatchReturn

SpecMatch == MatchInit /\ [][MatchNext]_vars

(***************************************************************************)
(* match_present on a library with repeated keys. The identifier stage and *)
(* the exact stage (lines 270-280) do not read fuzzy_threshold, which is   *)
(* left at its default here.                                               *)
(***************************************************************************)

\* the call, the library drawn from the catalogue and the second copy
IndexInit ==
    /\ mpc = "loop"
    /\ source \in DistinctSeqsUpTo(RefCatalogue("movie"), MaxSrc)
    /\ plex_items \in DistinctSeqsUpTo({GatherRecord(m, "movie") : m \in PlexCatalogue \cup {PlexTwin}}, MaxLib)
    /\ fuzzy_threshold = DefaultThreshold
    /\ prefer_ids \in BOOLEAN
    /\ i = 0
    /\ s = NoRecord
    /\ found = NoRecord
    /\ stage = 0
    /\ match = NoMatch
    /\ present = <<>>
    /\ missing = <<>>
    /\ wratio = <<>>
    /\ NormIdle /\ MainIdle

SpecIndex == IndexInit /\ [][MatchNext]_vars

(***************************************************************************)
(* main                                                                    *)
(***************************************************************************)

\* most Plex items in one kind of section
MaxSection == 1

\* most source bundles of a run
MaxBundles == 2

\* most records of one source bundle
MaxBundleLen == 2

\* most reference records over the bundles of a run
MaxRecords == 2

\* the Plex items of the runs of main
MainPlex == {m \in PlexCatalogue : m.ratingKey \in {12, 14}}

\* the reference records of the runs of main
MainRefs ==
    { TraktRecord(<<"I", "t">>, "2017", None, "1", None, "movie"),
      TraktRecord(<<"I", "t">>, "2017", None, "1", None, "show") }

\* [x for x in items if x.get("kind") == kind] (lines 481-482)
RECURSIVE OfKind(_, _)
OfKind(items, kind) ==
    IF items = <<>> THEN <<>>
    ELSE IF Get(items[Len(items)], "kind") = kind
         THEN Append(OfKind(SubSeq(items, 1, Len(items) - 1), kind), items[Len(items)])
         ELSE OfKind(SubSeq(items, 1, Len(items) - 1), kind)

\* match_present after the first n records of src: (present, missing)
RECURSIVE MatchFold(_, _, _, _, _, _)
MatchFold(src, items, threshold, prefer, tbl, n) ==
    IF n = 0 THEN <<(<<>>), (<<>>)>>
    ELSE LET before == MatchFold(src, items, threshold, prefer, tbl, n - 1)
             r == MatchOne(src[n], items, threshold, prefer, tbl)
         IN  <<AppendPresent(before[1], src[n], r.found),
               AppendMissing(before[2], src[n], r.found)>>

\* match_present(source, plex_items, fuzzy_threshold, prefer_ids)
match_present(src, items, threshold, prefer, tbl) ==
    MatchFold(src, items, threshold, prefer, tbl, Len(src))

\* the scores match_present needs of the scorer and the table lacks
CallPairs(src, items, prefer, tbl) ==
    UNION {NewPairs(src[n], items, prefer, tbl) : n \in 1..Len(src)}

\* a faulty variant of lines 484-485: the other library list is passed
PlexItemsForSwapped(kind, mv, sh) == IF kind = "movie" THEN sh ELSE mv

\* the library list lines 484-485 pass for the references of a kind
PlexItemsFor(kind, mv, sh) == IF kind = "movie" THEN mv ELSE sh

\* a faulty variant of the loop of line 479: it ends after one bundle at most
AfterBundleOnce(n, total) == "report"

\* where main goes after the n-th bundle of total (line 479)
AfterBundle(n, total) == IF n < total THEN "compare" ELSE "report"

\* line 317: the term radarr_add_missing looks a movie up by
RadarrTerm(m) ==
    IF Truthy(Get(m, "imdb_id")) THEN <<"imdb", Get(m, "imdb_id")>>
    ELSE IF Truthy(Get(m, "tmdb_id")) THEN <<"tmdb", Get(m, "tmdb_id")>>
    ELSE <<"title", m["title"], Get(m, "year")>>

\* line 364: the term sonarr_add_missing looks a series up by
SonarrTerm(m) ==
    IF Truthy(Get(m, "tvdb_id")) THEN <<"tvdb", Get(m, "tvdb_id")>>
    ELSE IF Truthy(Get(m, "imdb_id")) THEN <<"imdb", Get(m, "imdb_id")>>
    ELSE <<"title", m["title"]>>

Init ==
    /\ pc = "gather"
    /\ movies = <<>> /\ shows = <<>>
    /\ src_bundles = <<>> /\ done_bundles = 0
    /\ present_movies = <<>> /\ missing_movies = <<>>
    /\ present_shows = <<>> /\ missing_shows = <<>>
    /\ radarr_missing_movies = <<>> /\ sonarr_missing_shows = <<>>
    /\ gathers = 0 /\ radarr_lookups = <<>> /\ sonarr_lookups = <<>>
    /\ radarr_posts = <<>> /\ sonarr_posts = <<>>
    /\ fuzzy_threshold = DefaultThreshold /\ prefer_ids = TRUE /\ wratio = <<>>
    /\ NormIdle /\ MatchIdle

\* lines 446-451: gather_plex lists the sections named in movie_sections, then
\* those named in show_sections; a section may be named in both lists, or
\* twice, so an item may stand in both lists and more than once in a list
GatherPlex ==
    /\ pc = "gather"
    /\ \E ms \in SeqsUpTo(MainPlex, MaxSection) :
       \E ss \in SeqsUpTo(MainPlex, MaxSection) :
          /\ movies' = [n \in 1..Len(ms) |-> GatherRecord(ms[n], "movie")]
          /\ shows' = [n \in 1..Len(ss) |-> GatherRecord(ss[n], "show")]
    /\ gathers' = gathers + 1
    /\ pc' = "config"
    /\ UNCHANGED <<src_bundles, done_bundles, present_movies, missing_movies,
                   present_shows, missing_shows, radarr_missing_movies,
                   sonarr_missing_shows, radarr_lookups, sonarr_lookups, radarr_posts, sonarr_posts,
                   cvars, wratio, nvars, mvars>>

\* lines 453-455
ReadConfig ==
    /\ pc = "config"
    /\ fuzzy_threshold' \in Thresholds
    /\ prefer_ids' \in BOOLEAN
    /\ pc' = "sources"
    /\ UNCHANGED <<movies, shows, src_bundles, done_bundles, present_movies,
                   missing_movies, present_shows, missing_shows,
                   radarr_missing_movies, sonarr_missing_shows, gathers,
                   radarr_lookups, sonarr_lookups, radarr_posts, sonarr_posts, wratio, nvars, mvars>>

\* the number of records over the bundles
RECURSIVE RecordCount(_)
RecordCount(bundles) ==
    IF bundles = <<>> THEN 0
    ELSE Len(Head(bundles)) + RecordCount(Tail(bundles))

\* lines 458-477: the bundles the enabled sources return
BuildSources ==
    /\ pc = "sources"
    /\ src_bundles' \in {b \in SeqsUpTo(DistinctSeqsUpTo(MainRefs, MaxBundleLen), MaxBundles) :
                            RecordCount(b) <= MaxRecords}
    /\ pc' = AfterBundle(0, Len(src_bundles'))
    /\ UNCHANGED <<movies, shows, done_bundles, present_movies, missing_movies,
                   present_shows, missing_shows, radarr_missing_movies,
                   sonarr_missing_shows, gathers, radarr_lookups, sonarr_lookups, radarr_posts, sonarr_posts,
                   cvars, wratio, nvars, mvars>>

\* lines 479-502: one bundle is split by kind, matched and aggregated
Reconcile ==
    /\ pc = "compare"
    /\ done_bundles < Len(src_bundles)
    /\ LET items == src_bundles[done_bundles + 1]
           src_movies == OfKind(items, "movie")
           src_shows == OfKind(items, "show")
           lib_movies == PlexItemsFor("movie", movies, shows)
           lib_shows == PlexItemsFor("show", movies, shows)
       IN  \E ext \in [CallPairs(src_movies, lib_movies, prefer_ids, wratio)
                         \cup CallPairs(src_shows, lib_shows, prefer_ids, wratio)
                       -> ScoreValues(fuzzy_threshold)] :
             LET tbl == ext @@ wratio
                 rm == match_present(src_movies, lib_movies, fuzzy_threshold, prefer_ids, tbl)
                 rs == match_present(src_shows, lib_shows, fuzzy_threshold, prefer_ids, tbl)
             IN  /\ wratio' = tbl
                 /\ present_movies' = rm[1]
                 /\ missing_movies' = rm[2]
                 /\ present_shows' = rs[1]
                 /\ missing_shows' = rs[2]
                 /\ radarr_missing_movies' = radarr_missing_movies \o rm[2]
                 /\ sonarr_missing_shows' = sonarr_missing_shows \o rs[2]
    /\ done_bundles' = done_bundles + 1
    /\ pc' = AfterBundle(done_bundles + 1, Len(src_bundles))
    /\ UNCHANGED <<movies, shows, src_bundles, gathers, radarr_lookups,
                   sonarr_lookups, radarr_posts, sonarr_posts, cvars, nvars, mvars>>

\* lines 505-506
WriteReport ==
    /\ pc = "report"
    /\ pc' = "radarr"
    /\ UNCHANGED <<movies, shows, src_bundles, done_bundles, present_movies,
                   missing_movies, present_shows, missing_shows,
                   radarr_missing_movies, sonarr_missing_shows, gathers,
                   radarr_lookups, sonarr_lookups, radarr_posts, sonarr_posts, cvars, wratio, nvars, mvars>>

\* what Radarr or Sonarr answers to the lookups for one record: the first
\* lookup is not answered with status 200 ("error"), or it returns candidates
\* ("found"), or it returns none and the fallback lookup by title returns none
\* ("empty_empty") or some ("empty_found")
LookupAnswers == {"error", "found", "empty_empty", "empty_found"}

\* lines 318-325 and 365-372: the lookups sent for one record whose first
\* term is term; the fallback term is the title alone
LookupsFor(term, title, answer) ==
    IF answer \in {"empty_empty", "empty_found"}
    THEN <<term, <<"title", title>>>>
    ELSE <<term>>

\* lines 327-328 and 373-374 not taken: a candidate is there and the POST of
\* line 348 or line 394 is sent
Posted(answer) == answer \in {"found", "empty_found"}

\* the loop of radarr_add_missing (lines 312-352) over the first n movies:
\* the lookup terms sent, in order
RECURSIVE RadarrLookups(_, _, _)
RadarrLookups(ms, answers, n) ==
    IF n = 0 THEN <<>>
    ELSE RadarrLookups(ms, answers, n - 1)
             \o LookupsFor(RadarrTerm(ms[n]), ms[n]["title"], answers[n])

\* the loop of sonarr_add_missing (lines 361-398) over the first n series:
\* the lookup terms sent, in order
RECURSIVE SonarrLookups(_, _, _)
SonarrLookups(ms, answers, n) ==
    IF n = 0 THEN <<>>
    ELSE SonarrLookups(ms, answers, n - 1)
             \o LookupsFor(SonarrTerm(ms[n]), ms[n]["title"], answers[n])

\* the records, of the first n, a POST was sent for, in order
RECURSIVE PostsFor(_, _, _)
PostsFor(ms, answers, n) ==
    IF n = 0 THEN <<>>
    ELSE IF Posted(answers[n]) THEN Append(PostsFor(ms, answers, n - 1), ms[n])
         ELSE PostsFor(ms, answers, n - 1)

\* lines 509-512: with radarr.enabled, radarr_add_missing looks every
\* aggregated missing movie up and posts those Radarr has a candidate for
RadarrAdd ==
    /\ pc = "radarr"
    /\ \E enabled \in BOOLEAN :
       \E answers \in [1..Len(radarr_missing_movies) -> LookupAnswers] :
          IF enabled
          THEN /\ radarr_lookups' = RadarrLookups(radarr_missing_movies, answers,
                                                  Len(radarr_missing_movies))
               /\ radarr_posts' = PostsFor(radarr_missing_movies, answers,
                                           Len(radarr_missing_movies))
          ELSE /\ radarr_lookups' = <<>>
               /\ radarr_posts' = <<>>
    /\ pc' = "sonarr"
    /\ UNCHANGED <<movies, shows, src_bundles, done_bundles, present_movies,
                   missing_movies, present_shows, missing_shows,
                   radarr_missing_movies, sonarr_missing_shows, gathers,
                   sonarr_lookups, sonarr_posts, cvars, wratio, nvars, mvars>>

\* lines 514-517: with sonarr.enabled, sonarr_add_missing looks every
\* aggregated missing series up and posts those Sonarr has a candidate for
SonarrAdd ==
    /\ pc = "sonarr"
    /\ \E enabled \in BOOLEAN :
       \E answers \in [1..Len(sonarr_missing_shows) -> LookupAnswers] :
          IF enabled
          THEN /\ sonarr_lookups' = SonarrLookups(sonarr_missing_shows, answers,
                                                  Len(sonarr_missing_shows))
               /\ sonarr_posts' = PostsFor(sonarr_missing_shows, answers,
                                           Len(sonarr_missing_shows))
          ELSE /\ sonarr_lookups' = <<>>
               /\ sonarr_posts' = <<>>
    /\ pc' = "done"
    /\ UNCHANGED <<movies, shows, src_bundles, done_bundles, present_movies,
                   missing_movies, present_shows, missing_shows,
                   radarr_missing_movies, sonarr_missing_shows, gathers,
                   radarr_lookups, radarr_posts, cvars, wratio, nvars, mvars>>

Next ==
    \/ GatherPlex
    \/ ReadConfig
    \/ BuildSources
    \/ Reconcile
    \/ WriteReport
    \/ RadarrAdd
    \/ SonarrAdd

Spec == Init /\ [][Next]_vars

(***************************************************************************)
(* Properties of match_present (checked under SpecMatch; C11 under         *)
(* SpecIndex)                                                              *)
(***************************************************************************)

\* the library records handed to match_present
Library == {plex_items[n] : n \in 1..Len(plex_items)}

\* an iteration of the loop has run: s, found, stage and match are its values
Iterated == i > 0

\* the library records that carry the id the reference s carries in namespace ns
ResolvedBy(ns) == {p \in Library : Truthy(Get(s, ns)) /\ Get(p, ns) = Get(s, ns)}

\* the last result appended is Present(s) with the ratingKey of a record of P
PresentWith(P) ==
    /\ present # <<>>
    /\ \A k \in DOMAIN s : present[Len(present)][k] = s[k]
    /\ found \in P
    /\ present[Len(present)]["_matched_ratingKey"] = found.ratingKey

\* the last result appended is Missing(s)
IsMissing ==
    /\ found = NoRecord
    /\ missing # <<>>
    /\ missing[Len(missing)] = s

\* C1: with prefer_ids, the identifier stage decides before any title stage and
\* tries imdb, then tmdb, then tvdb: a reference whose imdb id is in the library
\* is Present with the key of a record carrying that imdb id (also when its tmdb
\* id belongs to another record); else one whose tmdb id is in the library gets
\* a record carrying that tmdb id; else tvdb likewise; whatever its title and year.
C1_IdentifierPriority ==
    (Iterated /\ prefer_ids) =>
        /\ ResolvedBy("imdb_id") # {} => stage = 1 /\ PresentWith(ResolvedBy("imdb_id"))
        /\ (ResolvedBy("imdb_id") = {} /\ ResolvedBy("tmdb_id") # {})
              => stage = 1 /\ PresentWith(ResolvedBy("tmdb_id"))
        /\ (ResolvedBy("imdb_id") = {} /\ ResolvedBy("tmdb_id") = {} /\ ResolvedBy("tvdb_id") # {})
              => stage = 1 /\ PresentWith(ResolvedBy("tvdb_id"))

\* C1 witness: the imdb id belongs to one record, the tmdb id to another, no
\* library record has the reference's normalized title, and the imdb one is found
C1_Witness ==
    /\ Iterated /\ prefer_ids
    /\ ResolvedBy("imdb_id") # {} /\ ResolvedBy("tmdb_id") # {}
    /\ ResolvedBy("imdb_id") \cap ResolvedBy("tmdb_id") = {}
    /\ \A p \in Library : normalize_title(p.title) # normalize_title(s.title)
    /\ PresentWith(ResolvedBy("imdb_id"))

\* the library records stage 2 may match for s: same normalized title, and the
\* same year when s has one, an empty year when s has none
ExactCandidates ==
    {p \in Library :
        /\ normalize_title(p.title) = normalize_title(s.title)
        /\ IF Truthy(Get(s, "year")) THEN p.year = Get(s, "year") ELSE p.year = ""}

\* C5: when the identifier stage did not match, stage 2 matches exactly when a
\* library record has the reference's normalized title and its year (an empty
\* year when the reference has none), and it matches such a record.
C5_ExactTitleYear ==
    (Iterated /\ stage # 1) =>
        /\ stage = 2 => PresentWith(ExactCandidates)
        /\ ExactCandidates # {} => stage = 2

\* C5 witness: It/1990 and It/2017 in the library, the reference It/2017 is
\* matched by stage 2 to the 2017 record
C5_Witness ==
    /\ Iterated /\ stage = 2
    /\ s.title = <<"I", "t">> /\ Get(s, "year") = "2017"
    /\ \E p, q \in Library : /\ p.title = <<"I", "t">> /\ p.year = "1990"
                             /\ q.title = <<"I", "t">> /\ q.year = "2017"
    /\ found.year = "2017"
    /\ PresentWith(ExactCandidates)

\* the fuzzy stage was entered and extractOne returned a candidate
FuzzyEntered == Iterated /\ stage # 1 /\ stage # 2 /\ match # NoMatch

\* the library records with the candidate's normalized title that satisfy the
\* year tie-break for s, by position
TieBreak ==
    {n \in 1..Len(plex_items) :
        /\ normalize_title(plex_items[n].title) = match[1]
        /\ Truthy(Get(s, "year")) => plex_items[n].year = Get(s, "year")}

\* C6: a best score equal to fuzzy_threshold is accepted (the reference is
\* Present when a same-titled record satisfies the year tie-break), a best
\* score equal to fuzzy_threshold - 1 is rejected (Missing).
C6_ThresholdBoundary ==
    FuzzyEntered =>
        /\ (match[2] = fuzzy_threshold /\ TieBreak # {}) => stage = 3 /\ PresentWith(Library)
        /\ match[2] = fuzzy_threshold - 1 => IsMissing

\* C6 witness: with the default threshold, the first reference scored
\* threshold - 1 at best and is missing, the second scored the threshold and is present
C6_Witness ==
    /\ FuzzyEntered /\ i = 2 /\ fuzzy_threshold = DefaultThreshold
    /\ match[2] = fuzzy_threshold /\ stage = 3 /\ PresentWith(Library)
    /\ Len(missing) = 1 /\ missing[1] = source[1]
    /\ \E pr \in DOMAIN wratio :
          /\ pr[1] = normalize_title(source[1].title)
          /\ wratio[pr] = fuzzy_threshold - 1
          /\ \A n \in 1..Len(plex_items) :
                WRatio(pr[1], normalize_title(plex_items[n].title), wratio) < fuzzy_threshold

\* C7 (as claimed): a reference whose normalized title is empty and that stages
\* 1 and 2 did not match is Missing, whatever the library and the threshold.
C7_EmptyTitleMissing ==
    (Iterated /\ stage # 1 /\ stage # 2 /\ normalize_title(s.title) = <<>>) => IsMissing

\* the masks over the first n source records: TRUE where the record is present
Masks(n) == [1..n -> BOOLEAN]

\* the records of the first n source records the mask marks with b, in order
RECURSIVE Selected(_, _, _)
Selected(mask, b, n) ==
    IF n = 0 THEN <<>>
    ELSE IF mask[n] = b THEN Append(Selected(mask, b, n - 1), source[n])
         ELSE Selected(mask, b, n - 1)

\* a present entry without the ratingKey it was given
Original(e) == [k \in DOMAIN e \ {"_matched_ratingKey"} |-> e[k]]

\* every processed source record is, in source order, in exactly one of
\* present (copied, plus the ratingKey of a library record) and missing (as is)
PartitionInv ==
    /\ Len(present) + Len(missing) = i
    /\ mpc = "returned" => i = Len(source)
    /\ \E mask \in Masks(i) :
          /\ Selected(mask, FALSE, i) = missing
          /\ Selected(mask, TRUE, i) = [k \in 1..Len(present) |-> Original(present[k])]
    /\ \A k \in 1..Len(present) :
          /\ "_matched_ratingKey" \in DOMAIN present[k]
          /\ present[k]["_matched_ratingKey"] \in {p.ratingKey : p \in Library}

\* C9: each reference record yields exactly one result, in source order, present
\* (a copy with the matched ratingKey) or missing (unchanged), so that on return
\* len(present) + len(missing) = len(source); source and library are not modified.
C9_ResultPartition ==
    /\ []PartitionInv
    /\ [][source' = source /\ plex_items' = plex_items]_vars

\* C9 witness: on return, of two source records the first is missing and the
\* second present
C9_Witness ==
    /\ mpc = "returned" /\ Len(source) = 2
    /\ missing = <<source[1]>>
    /\ Len(present) = 1 /\ Original(present[1]) = source[2]

\* C10: a candidate that passed the threshold is the highest-scoring title; the
\* record found is the first library record with that title and, when the
\* reference has a year, that year; if there is none the reference is Missing,
\* and no record of another title is taken.
C10_FuzzyYearTieBreak ==
    (FuzzyEntered /\ match[2] >= fuzzy_threshold) =>
        /\ match[2] = WRatio(normalize_title(s.title), match[1], wratio)
        /\ \A n \in 1..Len(plex_items) :
              WRatio(normalize_title(s.title), normalize_title(plex_items[n].title), wratio)
                  <= match[2]
        /\ IF TieBreak = {} THEN IsMissing
           ELSE /\ stage = 3
                /\ found = plex_items[CHOOSE n \in TieBreak : \A m \in TieBreak : n <= m]
                /\ PresentWith(Library)

\* C10 witness: the reference has a year, the first library record with the
\* candidate's title has another year, and a later one with that year is found
C10_Witness ==
    /\ FuzzyEntered /\ stage = 3 /\ Truthy(Get(s, "year"))
    /\ normalize_title(plex_items[1].title) = match[1]
    /\ plex_items[1].year # Get(s, "year")
    /\ found = plex_items[2]
    /\ found.year = Get(s, "year")

\* the record of P that stands last in library order
LastOf(P) ==
    plex_items[CHOOSE n \in 1..Len(plex_items) :
                  /\ plex_items[n] \in P
                  /\ \A m \in (n + 1)..Len(plex_items) : plex_items[m] \notin P]

\* the first namespace, in the order imdb, tmdb, tvdb, in which a library
\* record carries the id of s ("" when there is none)
FirstNamespace ==
    IF ResolvedBy("imdb_id") # {} THEN "imdb_id"
    ELSE IF ResolvedBy("tmdb_id") # {} THEN "tmdb_id"
    ELSE IF ResolvedBy("tvdb_id") # {} THEN "tvdb_id"
    ELSE ""

\* the keys the library records write into the id index
LibraryIdKeys ==
    {IdKey(x[1], Get(x[2], x[1])) :
        x \in {y \in {"imdb_id", "tmdb_id", "tvdb_id"} \X Library : Truthy(Get(y[2], y[1]))}}

\* both indexes are built whatever keys repeat: each holds exactly the keys
\* the library records write, and each value is a library record with that key
IndexesBuilt ==
    LET id_index == index_by_ids(plex_items)
        ty_index == build_title_year_index(plex_items)
    IN  /\ DOMAIN id_index = LibraryIdKeys
        /\ \A k \in DOMAIN id_index :
              id_index[k] \in Library /\ Get(id_index[k], k[1]) = k[3]
        /\ DOMAIN ty_index = {TitleYearKey(p) : p \in Library}
        /\ \A k \in DOMAIN ty_index :
              ty_index[k] \in Library /\ TitleYearKey(ty_index[k]) = k

\* C11: last write wins on a repeated key. When the identifier stage resolves
\* s, it does so in the first namespace in which a library record carries the
\* id of s, and to the last such record in library order; when no library
\* record carries an id of s in the same namespace the stage resolves nothing,
\* whatever ids of other namespaces are equal. When the exact title+year stage
\* resolves s, it is to the last library record in library order with the
\* (normalized title, year or "") of s. Both indexes are built on any library.
C11_LastWriteWins ==
    /\ IndexesBuilt
    /\ (Iterated /\ prefer_ids) =>
          IF FirstNamespace = "" THEN stage # 1
          ELSE /\ stage = 1
               /\ found = LastOf(ResolvedBy(FirstNamespace))
               /\ PresentWith({LastOf(ResolvedBy(FirstNamespace))})
    /\ (Iterated /\ ~prefer_ids) => stage # 1
    /\ (Iterated /\ stage = 2) =>
          /\ found = LastOf(ExactCandidates)
          /\ PresentWith({LastOf(ExactCandidates)})

\* C11 witness: the two library records share the tmdb id and the (normalized
\* title, year) key and have different ratingKeys; the first reference has no
\* id and was resolved by the exact stage, the second was resolved by its tmdb
\* id (its imdb id, the same string, names no record); both got the ratingKey
\* of the second library record
C11_Witness ==
    /\ i = 2 /\ prefer_ids /\ Len(plex_items) = 2
    /\ plex_items[1].ratingKey # plex_items[2].ratingKey
    /\ Truthy(plex_items[1].tmdb_id) /\ plex_items[1].tmdb_id = plex_items[2].tmdb_id
    /\ TitleYearKey(plex_items[1]) = TitleYearKey(plex_items[2])
    /\ \A ns \in {"imdb_id", "tmdb_id", "tvdb_id"} : ~Truthy(Get(source[1], ns))
    /\ TitleYearKey(source[1]) = TitleYearKey(plex_items[1])
    /\ stage = 1 /\ FirstNamespace = "tmdb_id"
    /\ Get(s, "imdb_id") = Get(s, "tmdb_id")
    /\ found = plex_items[2]
    /\ Len(present) = 2
    /\ present[1]["_matched_ratingKey"] = plex_items[2].ratingKey
    /\ present[2]["_matched_ratingKey"] = plex_items[2].ratingKey

(***************************************************************************)
(* Properties of normalize_title (checked under SpecNorm)                  *)
(***************************************************************************)

\* C3 (as claimed): normalize_title(normalize_title(x)) = normalize_title(x)
\* for every title x.
C3_NormalizeIdempotent == npc = "done" => normXX = normX

\* the words of a title: the maximal runs of characters that are neither
\* whitespace nor of the stripped punctuation class, in lower case and with
\* the straight apostrophe; cur is the word being read
RECURSIVE WordsFrom(_, _)
WordsFrom(t, cur) ==
    IF t = <<>> THEN (IF cur = <<>> THEN <<>> ELSE <<cur>>)
    ELSE IF IsSpace(Head(t)) \/ IsPunct(Head(t))
         THEN (IF cur = <<>> THEN <<>> ELSE <<cur>>) \o WordsFrom(Tail(t), <<>>)
         ELSE WordsFrom(Tail(t),
                        Append(cur, IF IsApostrophe(Head(t)) THEN "'"
                                    ELSE LowerChar(Head(t))))

Words(t) == WordsFrom(t, <<>>)

\* C4 (as claimed): two titles with the same words, that is, titles that differ
\* only in letter case, in apostrophe glyph, or in where characters of the
\* stripped punctuation class (and blanks) stand between, before or after the
\* words, have the same normalize_title.
C4_NormalizeEquivalence ==
    (npc = "done" /\ Words(titleX) = Words(titleY)) => normX = normY

(***************************************************************************)
(* Properties of main (checked under Spec)                                 *)
(***************************************************************************)

\* the library records of a kind, whichever list holds them
LibraryOfKind(kind) == OfKind(movies \o shows, kind)

\* the ratingKeys of the library records of a kind
KeysOfKind(kind) ==
    {LibraryOfKind(kind)[n].ratingKey : n \in 1..Len(LibraryOfKind(kind))}

\* every record of the list has the kind, and its result is the one the
\* library records of that kind alone give it: reported present, it carries
\* the ratingKey of the record of that kind that matches it; reported missing,
\* no record of that kind matches it. A Plex item listed in a movie section
\* and in a show section gives two library records, one of each kind, with
\* one ratingKey.
OnlyKind(list, kind) ==
    \A n \in 1..Len(list) :
        LET r == MatchOne(Original(list[n]), LibraryOfKind(kind),
                          fuzzy_threshold, prefer_ids, wratio)
        IN  /\ list[n].kind = kind
            /\ IF "_matched_ratingKey" \in DOMAIN list[n]
               THEN /\ r.found # NoRecord
                    /\ r.found.kind = kind
                    /\ list[n]["_matched_ratingKey"] = r.found.ratingKey
                    /\ list[n]["_matched_ratingKey"] \in KeysOfKind(kind)
               ELSE r.found = NoRecord

\* C2: for every bundle, a movie reference is reported present only because of
\* a library record of kind movie, a show reference only because of one of
\* kind show; the references of each kind end in the results of their kind.
C2_KindIsolation ==
    /\ OnlyKind(present_movies, "movie")
    /\ OnlyKind(missing_movies, "movie")
    /\ OnlyKind(present_shows, "show")
    /\ OnlyKind(missing_shows, "show")
    /\ done_bundles > 0 =>
          Len(present_movies) + Len(missing_movies) + Len(present_shows) + Len(missing_shows)
              = Len(src_bundles[done_bundles])

\* a library record of the list has the title, the year and an id of r
Twin(r, list) ==
    \E n \in 1..Len(list) :
        /\ list[n].title = r.title
        /\ list[n].year = r.year
        /\ \E ns \in {"imdb_id", "tmdb_id", "tvdb_id"} :
              Truthy(Get(r, ns)) /\ Get(list[n], ns) = Get(r, ns)

\* C2 witness: a bundle with a movie and a show of the same title, year and id;
\* the show section holds a record with exactly these, the movie section does
\* not: the movie reference is missing, the show reference present
C2_Witness ==
    /\ done_bundles > 0 /\ prefer_ids
    /\ Len(missing_movies) = 1 /\ Twin(missing_movies[1], shows)
    /\ Len(present_shows) = 1 /\ Twin(present_shows[1], shows)
    /\ movies # <<>>

\* what holds of the requests in every state: the library is fetched once and
\* before any bundle is reconciled, and no lookup or POST goes to Radarr or
\* Sonarr before every bundle is reconciled
SnapshotInv ==
    /\ gathers <= 1
    /\ pc # "gather" => gathers = 1
    /\ done_bundles > 0 => gathers = 1
    /\ (radarr_lookups # <<>> \/ sonarr_lookups # <<>>) => done_bundles = Len(src_bundles)
    /\ (radarr_posts # <<>> \/ sonarr_posts # <<>>) => done_bundles = Len(src_bundles)
    /\ pc \in {"radarr", "sonarr", "done"} => done_bundles = Len(src_bundles)

\* the step reconciles a bundle: its results are those of match_present on the
\* lists fetched at the start, and the lists stay as they are
ReconciledOnSnapshot ==
    done_bundles' = done_bundles + 1 =>
        /\ present_movies' = match_present(OfKind(src_bundles[done_bundles'], "movie"),
                                           movies, fuzzy_threshold, prefer_ids, wratio')[1]
        /\ missing_shows' = match_present(OfKind(src_bundles[done_bundles'], "show"),
                                          shows, fuzzy_threshold, prefer_ids, wratio')[2]

\* C8: the library is fetched exactly once, before any source is reconciled;
\* after that the movie and show lists never change, every bundle is reconciled
\* against them, and no acquisition request is issued until all are reconciled.
C8_SnapshotStability ==
    /\ []SnapshotInv
    /\ [][(pc # "gather" => movies' = movies /\ shows' = shows) /\ ReconciledOnSnapshot]_vars

\* C8 witness: two bundles were reconciled, each left a movie missing, and the
\* lookups and a POST went out afterwards
C8_Witness ==
    /\ pc = "done" /\ Len(src_bundles) = 2 /\ done_bundles = 2
    /\ src_bundles[1] # <<>> /\ src_bundles[2] # <<>>
    /\ movies # <<>>
    /\ Len(radarr_missing_movies) = 2
    /\ Len(radarr_lookups) >= 2
    /\ radarr_posts # <<>>

====
